---- MODULE Spec2Model ----
(***************************************************************************)
(* Model of nn4omtf's OMTFRunner.train() control loop                      *)
(* (src/nn4omtf/network/runner.py) together with the session log handling  *)
(* (_log_init / log / log_summary / _log_deinit).                          *)
(*                                                                         *)
(* One run of train() is a sequential program; pc is the statement the     *)
(* interpreter executes next.  A KeyboardInterrupt is raised by the        *)
(* interpreter between two statements of the main thread, so the Interrupt *)
(* action may fire at every pc of a running train().                       *)
(***************************************************************************)
EXTENDS Integers, Sequences, FiniteSets, TLC

\* ---------------------------------------------------------------- bounds
MaxSteps == 2            \* largest step budget tried (steps = -1 is unbounded)
MaxAccIval == 2          \* largest validation interval tried
MaxTrainBatches == 2     \* batches held by the training stream
MaxValidExamples == 3    \* examples held by the validation stream
MaxValidBatch == 2       \* largest valid_batch_size tried
MaxLimit == 2            \* largest limit_valid_examples tried
MaxInterrupts == 1       \* KeyboardInterrupts delivered to one train() call
MaxVal == 3              \* _deserialize: largest pt value and largest edge tried
MaxEdges == 2            \* _deserialize: longest list of bucket edges tried
MaxFiles == 2            \* setup_input_pipe: most files in a dataset
MaxPerFile == 2          \* examples held by each file
MaxBatch == 3            \* largest batch_size tried
MaxReps == 2             \* largest repeat count tried
MaxSentinels == 2        \* fetches made after the stream has run out
MaxTotal == 8            \* most examples in one whole stream
MaxRunners == 2          \* OMTFRunner objects constructed in one process
MaxOverrides == 1        \* keyword arguments given to one call
MaxUpdates == 1          \* _update_params calls made in one process

\* Python's None, and an optional value v as the one-element tuple <<v>>.
None == <<>>
Some(v) == <<v>>

\* PHASE_NAME constants (nn4omtf.const, imported at runner.py:22-23)
TRAIN == "train"
VALID == "valid"
TEST == "test"
Phases == {TRAIN, VALID, TEST}

LogModes == {"none", "txt", "tb", "both"}

VARIABLES
    params,        \* self.params: the merged runner configuration
    dataset,       \* self.dataset: sizes of the train and validation streams
    pc,            \* statement of train() executed next
    i,             \* train(): the step counter
    ddict,         \* train(): result of the last train_pipe.fetch()
    vdict,         \* train(): result of the last valid_pipe.fetch()
    ex_cnt,        \* train(): examples counted in the current validation
    trainPos,      \* train_pipe: batches delivered so far
    validPos,      \* valid_pipe: examples delivered since its last initialize
    optSteps,      \* session: number of executed optimizer steps (train_ops)
    accTotal,      \* session: running accuracy accumulator, total count
    log_hnd,       \* self.log_hnd: text log handle per phase
    writers,       \* self.writers: summary writer per phase
    validLog,      \* history: the calls log(VALID, step, ...) made so far
    finishCalls,   \* calls of network.finish()
    saveCalls,     \* calls of network.save()
    exc,           \* exception that train() propagated to its caller
    why,           \* how the training loop was left
    interrupts,    \* KeyboardInterrupts delivered so far
    caught,        \* of these, the ones the except clause caught
    validStarts,   \* history: step numbers at which a validation began
    snap,          \* history: stream position and optimizer steps at that time
    holders,       \* train(): label placeholders of the graph, as their widths
    names,         \* train(): the list of metric names
    reported,      \* train(): the number printed as "Steps in total"
    out_class_bins,  \* _deserialize: the caller's list of pt bucket edges
    example,       \* _deserialize: the parsed record being decoded
    edata,         \* _deserialize: what the last call returned
    edges0,        \* the edge list as the caller passed it to setup_input_pipe
    earlier,       \* TRUE once a record has been decoded and handed on
    pipe,          \* setup_input_pipe: its arguments and the files' size
    iter,          \* setup_input_pipe: what the call produced
    orders,        \* file order the files shuffle gave to each repetition begun
    taken,         \* batches the batch stage has built from the stream
    buffer,        \* batches held by the batch-level shuffle
    results,       \* history: size of each fetched batch, None for the sentinel
    seen,          \* history: how often each example has been delivered
    last,          \* iterator: the batch that the last fetch delivered
    inOrder,       \* history: every batch came out in the order it was built
    heap,          \* the dict objects; heap[1] is OMTFRunner.DEFAULT_PARAMS
    runners,       \* the runners constructed: which dict self.params refers to
    updates,       \* _update_params calls made so far
    test_pc,       \* statement of test() executed next
    test_opt,      \* test(): the runner parameters it works with
    test_stream,   \* examples held by the test stream
    test_pos,      \* test_pipe: examples delivered since its last initialize
    test_inits,    \* test_pipe: number of initialize calls, one per pass
    test_vdict,    \* collect_statistics: result of the last test_pipe.fetch()
    test_holders,  \* test(): label placeholders of the graph, as their widths
    processed      \* collect_statistics: examples run through the network

\* the state of one train() call
trainVars == <<params, dataset, pc, i, ddict, vdict, ex_cnt, trainPos, validPos,
               optSteps, accTotal, log_hnd, writers, validLog, finishCalls,
               saveCalls, exc, why, interrupts, caught, validStarts, snap,
               holders, names, reported>>
\* the state of the record deserializer
bucketVars == <<out_class_bins, example, edata, edges0, earlier>>
\* everything train() does not touch
\* the state of one input pipe
inputPipeVars == <<pipe, iter, orders, taken, buffer, results, seen, last,
                   inOrder>>
\* the runners of one process and their parameter dicts
runnerVars == <<heap, runners, updates>>
\* the state of one test() call
testVars == <<test_pc, test_opt, test_stream, test_pos, test_inits, test_vdict,
              test_holders, processed>>
pureVars == <<bucketVars, inputPipeVars, runnerVars, testVars>>
vars == <<trainVars, pureVars>>

\* ------------------------------------------------------- program positions
SetupPcs == {"call", "log_init", "setup"}
TrainPcs == {"loop", "fetch", "check_none", "train_run", "show_dbg",
             "valid_test", "tick", "incr"}
ValidPcs == {"metrics_init", "valid_init", "valid_fetch", "valid_check",
             "metrics_ups", "cnt_op", "limit_check", "valid_accs",
             "log_summary", "log"}
\* statements inside the try block, runner.py:307-371
TryPcs == TrainPcs \cup ValidPcs
FinalPcs == {"except", "fin_tick", "finish", "save", "log_deinit"}
RunningPcs == SetupPcs \cup TryPcs \cup FinalPcs
DonePcs == {"returned", "raised"}

\* ------------------------------------------------------------ input pipes
\* OMTFInputPipe.fetch() on the training pipe: the next batch, or the
\* exhaustion sentinel (None, None) once the stream is used up.
TrainPipeFetch(pos, total) ==
    IF pos < total THEN [ddict |-> "batch", pos |-> pos + 1]
                   ELSE [ddict |-> "None", pos |-> pos]

\* OMTFInputPipe.fetch() on the validation pipe: the dataset built by
\* setup_input_pipe yields whole batches of batch_size examples (the last one
\* may be short); limit_examples gates further whole batches once at least
\* that many examples were delivered.
ValidPipeFetch(pos, total, batch_size, limit) ==
    IF limit # None /\ limit[1] <= pos THEN [vdict |-> None, pos |-> pos]
    ELSE IF pos >= total THEN [vdict |-> None, pos |-> pos]
    ELSE LET n == IF total - pos < batch_size THEN total - pos ELSE batch_size
         IN  [vdict |-> Some(n), pos |-> pos + n]

\* ------------------------------------------------------------ session logs
AllNone == [p \in Phases |-> "None"]

\* OMTFRunner._log_init.  The name tf is assigned in the function body
\* (tf = open(tname, 'w')), so it is a local of _log_init everywhere in it:
\* tf.summary.FileWriter reads that local, which is unbound unless the
\* train-phase text branch ran, and is a file object (no attribute summary)
\* when it did.
LogInit(mode, phase) ==
    LET txt == mode \in {"txt", "both"}
        tb == mode \in {"tb", "both"}
        hnd == IF ~txt THEN AllNone
               ELSE IF phase = TRAIN
                    THEN [AllNone EXCEPT ![TRAIN] = "open", ![VALID] = "open"]
                    ELSE [AllNone EXCEPT ![TEST] = "open"]
    IN  [log_hnd |-> hnd,
         writers |-> AllNone,
         raised |-> IF ~tb THEN "none"
                    ELSE IF txt /\ phase = TRAIN THEN "AttributeError"
                    ELSE "UnboundLocalError"]

\* OMTFRunner.log: the early return when the phase has no text sink; else one
\* line is written and flushed (writing to a closed file raises ValueError).
Log(hnd, phase) ==
    [wrote |-> hnd[phase] = "open",
     raised |-> IF hnd[phase] = "closed" THEN "ValueError" ELSE "none"]

\* OMTFRunner.log_summary: the early return when the phase has no writer; else
\* every summary is handed to the writer.
LogSummary(wr, phase) ==
    [wrote |-> wr[phase] = "open", raised |-> "none"]

\* OMTFRunner._log_deinit: closes the text handles; the writers are left.
LogDeinit(hnd) ==
    [p \in Phases |-> IF hnd[p] # "None" THEN "closed" ELSE hnd[p]]

\* ----------------------------------------------------- train(): conditions
\* mutant of LoopCond: the budget is compared with the steps already done
LoopCondOffByOne(step, steps) == step - 1 <= steps \/ steps < 0

\* runner.py:308  while i <= opt.steps or opt.steps < 0
LoopCond(step, steps) == step <= steps \/ steps < 0

\* mutant of ValidDue: the step counter is taken as zero-based
ValidDueZeroBased(step, acc_ival) == (step - 1) % acc_ival = 0

\* runner.py:342  if i % opt.acc_ival == 0
ValidDue(step, acc_ival) == step % acc_ival = 0

\* runner.py:357-358  limit_valid_examples is not None and limit <= ex_cnt
LimitReached(limit, cnt) == limit # None /\ limit[1] <= cnt

\* ---------------------------------------------------------------- initial
\* no record is being decoded
BucketIdle ==
    /\ out_class_bins = <<>>
    /\ example = None
    /\ edata = None
    /\ edges0 = <<>>
    /\ earlier = FALSE

\* no input pipe is being built
PipeIdle ==
    /\ pipe = [files_n |-> 1, per_file |-> 1, mapping_type |-> "interleave",
               batch_size |-> None, shuffle |-> FALSE, reps |-> 1]
    /\ iter = "idle"
    /\ orders = <<>>
    /\ taken = 0
    /\ buffer = {}
    /\ results = <<>>
    /\ seen = <<>>
    /\ last = None
    /\ inOrder = TRUE

\* test() is not running
TestIdle ==
    /\ test_pc = "idle"
    /\ test_opt = [valid_batch_size |-> 1, limit_test_examples |-> None]
    /\ test_stream = 0
    /\ test_pos = 0
    /\ test_inits = 0
    /\ test_vdict = None
    /\ test_holders = None
    /\ processed = 0

\* no runner has been constructed
RunnerIdle ==
    /\ heap = <<>>
    /\ runners = <<>>
    /\ updates = 0

ParamsSet ==
    [steps : -1 .. MaxSteps,
     acc_ival : 1 .. MaxAccIval,
     debug : BOOLEAN,
     log : LogModes,
     valid_batch_size : 1 .. MaxValidBatch,
     limit_valid_examples : {None} \cup {Some(n) : n \in 1 .. MaxLimit},
     phase : {"unset"}]

\* State after OMTFRunner(dataset, network, **kw), before train() is called.
Init ==
    /\ params \in ParamsSet
    /\ dataset \in [train : 0 .. MaxTrainBatches, valid : 0 .. MaxValidExamples]
    /\ pc = "call"
    /\ i = 0
    /\ ddict = "None"
    /\ vdict = None
    /\ ex_cnt = 0
    /\ trainPos = 0
    /\ validPos = 0
    /\ optSteps = 0
    /\ accTotal = 0
    /\ log_hnd = AllNone
    /\ writers = AllNone
    /\ validLog = <<>>
    /\ finishCalls = 0
    /\ saveCalls = 0
    /\ exc = "none"
    /\ why = "none"
    /\ interrupts = 0
    /\ caught = 0
    /\ validStarts = <<>>
    /\ snap = [pos |-> 0, opt |-> 0]
    /\ holders = None
    /\ names = <<>>
    /\ reported = None
    /\ BucketIdle
    /\ PipeIdle
    /\ RunnerIdle
    /\ TestIdle

\* variable groups left alone by most statements
graphVars == <<holders, names, reported>>
cfgVars == <<params, dataset>>
pipeVars == <<ddict, vdict, trainPos, validPos>>
sessVars == <<optSteps, accTotal, ex_cnt>>
logVars == <<log_hnd, writers, validLog>>
endVars == <<finishCalls, saveCalls, exc, why>>
intrVars == <<interrupts, caught>>
histVars == <<validStarts, snap>>

\* ------------------------------------------------------------ train(): setup
\* self.network.pt_class, the pt bucket edges of the network (runner.py:75)
pt_class == <<10, 20, 30>>
\* input_pipe_helpers.py:206 and runner.py:80: number of pt classes
OutLen(bins) == Len(bins) + 1
\* input_pipe_helpers.py:107  tf.one_hot(prod_sign_k, 2)
SignLabelWidth == 2
\* runner.py:283-288  names = [x[0] for x in ops]: one name per metric op
\* that setup_metrics built
MetricNames == <<"pt", "sgn", "cnt">>
\* runner.py:360-365  accs: one value per metric op, then train_ent's two
NumAccs == Len(MetricNames) + 2

\* runner.py:219-220  kw['phase'] = PHASE_NAME.TRAIN; self._update_params(kw)
TrainCall ==
    /\ pc = "call"
    /\ params' = [params EXCEPT !.phase = TRAIN]
    /\ pc' = "log_init"
    /\ UNCHANGED <<dataset, i, pipeVars, sessVars, logVars, endVars, intrVars,
                   histVars>>
    /\ UNCHANGED pureVars
    /\ UNCHANGED graphVars

\* runner.py:221  self._log_init()
TrainLogInit ==
    /\ pc = "log_init"
    /\ LET r == LogInit(params.log, params.phase)
       IN  /\ log_hnd' = r.log_hnd
           /\ writers' = r.writers
           /\ exc' = r.raised
           /\ pc' = IF r.raised = "none" THEN "setup" ELSE "raised"
    /\ UNCHANGED <<cfgVars, i, pipeVars, sessVars, validLog, finishCalls,
                   saveCalls, why, intrVars, histVars>>
    /\ UNCHANGED pureVars
    /\ UNCHANGED graphVars

\* runner.py:222-305  pipes, graph, train_pipe.initialize(sess), i = 1
TrainSetup ==
    /\ pc = "setup"
    /\ trainPos' = 0
    /\ i' = 1
    /\ pc' = "loop"
    /\ UNCHANGED <<cfgVars, ddict, vdict, validPos, sessVars, logVars, endVars,
                   intrVars, histVars>>
    /\ UNCHANGED pureVars
    /\ holders' = Some([pt_labels |-> OutLen(pt_class), sgn_labels |-> 3])
    /\ names' = MetricNames
    /\ UNCHANGED reported

\* ------------------------------------------------- train(): training section
\* runner.py:308  the while condition; a false condition ends the loop
LoopTest ==
    /\ pc = "loop"
    /\ IF LoopCond(i, params.steps)
       THEN pc' = "fetch" /\ why' = why
       ELSE pc' = "fin_tick" /\ why' = "budget"
    /\ UNCHANGED <<cfgVars, i, pipeVars, sessVars, logVars, finishCalls,
                   saveCalls, exc, intrVars, histVars>>
    /\ UNCHANGED pureVars
    /\ UNCHANGED graphVars

\* runner.py:312  ddict, edict = train_pipe.fetch()
TrainFetch ==
    /\ pc = "fetch"
    /\ LET r == TrainPipeFetch(trainPos, dataset.train)
       IN  ddict' = r.ddict /\ trainPos' = r.pos
    /\ pc' = "check_none"
    /\ UNCHANGED <<cfgVars, i, vdict, validPos, sessVars, logVars, endVars,
                   intrVars, histVars>>
    /\ UNCHANGED pureVars
    /\ UNCHANGED graphVars

\* mutant of CheckNone: the sentinel skips the training section only
CheckNoneSkipsTraining ==
    /\ pc = "check_none"
    /\ IF ddict = "None"
       THEN pc' = "valid_test" /\ why' = "exhausted"
       ELSE pc' = "train_run" /\ why' = why
    /\ UNCHANGED <<cfgVars, i, pipeVars, sessVars, logVars, finishCalls,
                   saveCalls, exc, intrVars, histVars>>
    /\ UNCHANGED pureVars
    /\ UNCHANGED graphVars

\* runner.py:313-318  if ddict is None: break; else build the feed dict
CheckNone ==
    /\ pc = "check_none"
    /\ IF ddict = "None"
       THEN pc' = "fin_tick" /\ why' = "exhausted"
       ELSE pc' = "train_run" /\ why' = why
    /\ UNCHANGED <<cfgVars, i, pipeVars, sessVars, logVars, finishCalls,
                   saveCalls, exc, intrVars, histVars>>
    /\ UNCHANGED pureVars
    /\ UNCHANGED graphVars

\* mutant of TrainRun: the debug branch runs the metrics without train_ops
TrainRunDebugNoTrain ==
    /\ pc = "train_run"
    /\ optSteps' = IF params.debug THEN optSteps ELSE optSteps + 1
    /\ pc' = IF params.debug THEN "show_dbg" ELSE "valid_test"
    /\ UNCHANGED <<cfgVars, i, pipeVars, accTotal, ex_cnt, logVars, endVars,
                   intrVars, histVars>>
    /\ UNCHANGED pureVars
    /\ UNCHANGED graphVars

\* runner.py:319-340  sess.run([train_ops, ...]): one optimizer step
TrainRun ==
    /\ pc = "train_run"
    /\ optSteps' = optSteps + 1
    /\ pc' = IF params.debug THEN "show_dbg" ELSE "valid_test"
    /\ UNCHANGED <<cfgVars, i, pipeVars, accTotal, ex_cnt, logVars, endVars,
                   intrVars, histVars>>
    /\ UNCHANGED pureVars
    /\ UNCHANGED graphVars

\* runner.py:325-327  if self.show_dbg(ddict, edict): break
\* (show_dbg returns True when the user answers n to "Continue debugging?")
ShowDbg ==
    /\ pc = "show_dbg"
    /\ \E quit \in BOOLEAN :
         IF quit THEN pc' = "fin_tick" /\ why' = "debug"
                 ELSE pc' = "valid_test" /\ why' = why
    /\ UNCHANGED <<cfgVars, i, pipeVars, sessVars, logVars, finishCalls,
                   saveCalls, exc, intrVars, histVars>>
    /\ UNCHANGED pureVars
    /\ UNCHANGED graphVars

\* runner.py:342  if i % opt.acc_ival == 0
ValidTest ==
    /\ pc = "valid_test"
    /\ pc' = IF ValidDue(i, params.acc_ival) THEN "metrics_init" ELSE "tick"
    /\ UNCHANGED <<cfgVars, i, pipeVars, sessVars, logVars, endVars, intrVars,
                   histVars>>
    /\ UNCHANGED pureVars
    /\ UNCHANGED graphVars

\* runner.py:370  self._next_tick()
Tick ==
    /\ pc = "tick"
    /\ pc' = "incr"
    /\ UNCHANGED <<cfgVars, i, pipeVars, sessVars, logVars, endVars, intrVars,
                   histVars>>
    /\ UNCHANGED pureVars
    /\ UNCHANGED graphVars

\* runner.py:371  i += 1
Incr ==
    /\ pc = "incr"
    /\ i' = i + 1
    /\ pc' = "loop"
    /\ UNCHANGED <<cfgVars, pipeVars, sessVars, logVars, endVars, intrVars,
                   histVars>>
    /\ UNCHANGED pureVars
    /\ UNCHANGED graphVars

\* ----------------------------------------------- train(): validation section
\* runner.py:343-344  sess.run(metrics_init): reset the running accumulators
MetricsInit ==
    /\ pc = "metrics_init"
    /\ accTotal' = 0
    /\ validStarts' = Append(validStarts, i)
    /\ snap' = [pos |-> trainPos, opt |-> optSteps]
    /\ pc' = "valid_init"
    /\ UNCHANGED <<cfgVars, i, pipeVars, optSteps, ex_cnt, logVars, endVars,
                   intrVars>>
    /\ UNCHANGED pureVars
    /\ UNCHANGED graphVars

\* runner.py:345-346  valid_pipe.initialize(sess); ex_cnt = 0
ValidInit ==
    /\ pc = "valid_init"
    /\ validPos' = 0
    /\ ex_cnt' = 0
    /\ pc' = "valid_fetch"
    /\ UNCHANGED <<cfgVars, i, ddict, vdict, trainPos, optSteps, accTotal,
                   logVars, endVars, intrVars, histVars>>
    /\ UNCHANGED pureVars
    /\ UNCHANGED graphVars

\* runner.py:347-349  vdict, edict = valid_pipe.fetch()
ValidFetch ==
    /\ pc = "valid_fetch"
    /\ LET r == ValidPipeFetch(validPos, dataset.valid, params.valid_batch_size,
                               params.limit_valid_examples)
       IN  vdict' = r.vdict /\ validPos' = r.pos
    /\ pc' = "valid_check"
    /\ UNCHANGED <<cfgVars, i, ddict, trainPos, sessVars, logVars, endVars,
                   intrVars, histVars>>
    /\ UNCHANGED pureVars
    /\ UNCHANGED graphVars

\* runner.py:350-354  if vdict is None: break; else build the feed dict
ValidCheck ==
    /\ pc = "valid_check"
    /\ pc' = IF vdict = None THEN "valid_accs" ELSE "metrics_ups"
    /\ UNCHANGED <<cfgVars, i, pipeVars, sessVars, logVars, endVars, intrVars,
                   histVars>>
    /\ UNCHANGED pureVars
    /\ UNCHANGED graphVars

\* mutant of MetricsUps: the validation batch is also run through train_ops
MetricsUpsTrains ==
    /\ pc = "metrics_ups"
    /\ accTotal' = accTotal + vdict[1]
    /\ optSteps' = optSteps + 1
    /\ pc' = "cnt_op"
    /\ UNCHANGED <<cfgVars, i, pipeVars, ex_cnt, logVars, endVars, intrVars,
                   histVars>>
    /\ UNCHANGED pureVars
    /\ UNCHANGED graphVars

\* runner.py:355  sess.run(metrics_ups, ...): accumulate the whole batch
MetricsUps ==
    /\ pc = "metrics_ups"
    /\ accTotal' = accTotal + vdict[1]
    /\ pc' = "cnt_op"
    /\ UNCHANGED <<cfgVars, i, pipeVars, optSteps, ex_cnt, logVars, endVars,
                   intrVars, histVars>>
    /\ UNCHANGED pureVars
    /\ UNCHANGED graphVars

\* runner.py:356  ex_cnt = sess.run(cnt_op)
CntOp ==
    /\ pc = "cnt_op"
    /\ ex_cnt' = accTotal
    /\ pc' = "limit_check"
    /\ UNCHANGED <<cfgVars, i, pipeVars, optSteps, accTotal, logVars, endVars,
                   intrVars, histVars>>
    /\ UNCHANGED pureVars
    /\ UNCHANGED graphVars

\* runner.py:357-359  break once limit_valid_examples <= ex_cnt
LimitCheck ==
    /\ pc = "limit_check"
    /\ pc' = IF LimitReached(params.limit_valid_examples, ex_cnt)
             THEN "valid_accs" ELSE "valid_fetch"
    /\ UNCHANGED <<cfgVars, i, pipeVars, sessVars, logVars, endVars, intrVars,
                   histVars>>
    /\ UNCHANGED pureVars
    /\ UNCHANGED graphVars

\* mutant of ValidAccs: the model is checkpointed after every validation
ValidAccsCheckpoints ==
    /\ pc = "valid_accs"
    /\ saveCalls' = saveCalls + 1
    /\ finishCalls' = finishCalls + 1
    /\ pc' = "log_summary"
    /\ UNCHANGED <<cfgVars, i, pipeVars, sessVars, logVars, exc, why, intrVars,
                   histVars>>
    /\ UNCHANGED pureVars
    /\ UNCHANGED graphVars

\* runner.py:360  accs, summs = sess.run([metrics_ops, metrics_summ])
ValidAccs ==
    /\ pc = "valid_accs"
    /\ pc' = "log_summary"
    /\ UNCHANGED <<cfgVars, i, pipeVars, sessVars, logVars, endVars, intrVars,
                   histVars>>
    /\ UNCHANGED pureVars
    /\ UNCHANGED graphVars

\* runner.py:363  self.log_summary(PHASE_NAME.VALID, i, summs + train_summ)
ValidLogSummary ==
    /\ pc = "log_summary"
    /\ LET r == LogSummary(writers, VALID)
       IN  /\ exc' = r.raised
           /\ pc' = IF r.raised = "none" THEN "log" ELSE "raised"
    /\ UNCHANGED <<cfgVars, i, pipeVars, sessVars, logVars, finishCalls,
                   saveCalls, why, intrVars, histVars>>
    /\ UNCHANGED pureVars
    /\ UNCHANGED graphVars

\* the names zipped with nothing left out: the longer list decides
ZipAllNames(nms, n) == nms
\* runner.py:366  the names of zip(names, accs), accs holding n values: zip
\* stops at the shorter of the two
ZipNames(nms, n) == SubSeq(nms, 1, IF Len(nms) < n THEN Len(nms) ELSE n)

\* runner.py:364-368  names += [...]; accs += train_ent;
\* self.log(PHASE_NAME.VALID, i, zip(names, accs))
ValidLog ==
    /\ pc = "log"
    /\ LET r == Log(log_hnd, VALID)
       IN  /\ exc' = r.raised
           /\ pc' = IF r.raised = "none" THEN "tick" ELSE "raised"
           /\ names' = names \o <<"cross-pt", "cross-sgn">>
           /\ validLog' = Append(validLog,
                                 [step |-> i, fetched |-> trainPos,
                                  cnt |-> accTotal, wrote |-> r.wrote,
                                  fields |-> ZipNames(names', NumAccs)])
    /\ UNCHANGED <<cfgVars, i, pipeVars, sessVars, log_hnd, writers,
                   finishCalls, saveCalls, why, intrVars, histVars>>
    /\ UNCHANGED pureVars
    /\ UNCHANGED <<holders, reported>>

\* ------------------------------------------------ train(): end of the loop
\* mutant of Except: the handler returns from train() at once
ExceptReturns ==
    /\ pc = "except"
    /\ pc' = "returned"
    /\ UNCHANGED <<cfgVars, i, pipeVars, sessVars, logVars, endVars, intrVars,
                   histVars>>
    /\ UNCHANGED pureVars
    /\ UNCHANGED graphVars

\* mutant of Except: the handler re-raises the interrupt
ExceptReraises ==
    /\ pc = "except"
    /\ pc' = "raised"
    /\ exc' = "KeyboardInterrupt"
    /\ UNCHANGED <<cfgVars, i, pipeVars, sessVars, logVars, finishCalls,
                   saveCalls, why, intrVars, histVars>>
    /\ UNCHANGED pureVars
    /\ UNCHANGED graphVars

\* runner.py:373-374  except KeyboardInterrupt: vp("Training stopped by user!")
Except ==
    /\ pc = "except"
    /\ pc' = "fin_tick"
    /\ UNCHANGED <<cfgVars, i, pipeVars, sessVars, logVars, endVars, intrVars,
                   histVars>>
    /\ UNCHANGED pureVars
    /\ UNCHANGED graphVars

\* runner.py:377-380  self._next_tick() and the closing report
FinTick ==
    /\ pc = "fin_tick"
    /\ pc' = "finish"
    /\ UNCHANGED <<cfgVars, i, pipeVars, sessVars, logVars, endVars, intrVars,
                   histVars>>
    /\ UNCHANGED pureVars
    /\ reported' = Some(i)
    /\ UNCHANGED <<holders, names>>

\* runner.py:383  self.network.finish()
Finish ==
    /\ pc = "finish"
    /\ finishCalls' = finishCalls + 1
    /\ pc' = "save"
    /\ UNCHANGED <<cfgVars, i, pipeVars, sessVars, logVars, saveCalls, exc, why,
                   intrVars, histVars>>
    /\ UNCHANGED pureVars
    /\ UNCHANGED graphVars

\* runner.py:384-385  self.network.save()
Save ==
    /\ pc = "save"
    /\ saveCalls' = saveCalls + 1
    /\ pc' = "log_deinit"
    /\ UNCHANGED <<cfgVars, i, pipeVars, sessVars, logVars, finishCalls, exc,
                   why, intrVars, histVars>>
    /\ UNCHANGED pureVars
    /\ UNCHANGED graphVars

\* runner.py:386  self._log_deinit(); train() returns
TrainLogDeinit ==
    /\ pc = "log_deinit"
    /\ log_hnd' = LogDeinit(log_hnd)
    /\ pc' = "returned"
    /\ UNCHANGED <<cfgVars, i, pipeVars, sessVars, writers, validLog, endVars,
                   intrVars, histVars>>
    /\ UNCHANGED pureVars
    /\ UNCHANGED graphVars

\* A KeyboardInterrupt raised between two statements of train().  Inside the
\* try block (runner.py:307-371) the except clause at runner.py:373 takes it;
\* anywhere else in train() it leaves train() as an exception.
Interrupt ==
    /\ pc \in RunningPcs
    /\ interrupts < MaxInterrupts
    /\ interrupts' = interrupts + 1
    /\ IF pc \in TryPcs
       THEN /\ pc' = "except"
            /\ caught' = caught + 1
            /\ why' = "interrupt"
            /\ exc' = exc
       ELSE /\ pc' = "raised"
            /\ caught' = caught
            /\ why' = why
            /\ exc' = "KeyboardInterrupt"
    /\ UNCHANGED <<cfgVars, i, pipeVars, sessVars, logVars, finishCalls,
                   saveCalls, histVars>>
    /\ UNCHANGED pureVars
    /\ UNCHANGED graphVars

Next ==
    \/ TrainCall \/ TrainLogInit \/ TrainSetup
    \/ LoopTest \/ TrainFetch \/ CheckNone \/ TrainRun \/ ShowDbg
    \/ ValidTest \/ Tick \/ Incr
    \/ MetricsInit \/ ValidInit \/ ValidFetch \/ ValidCheck \/ MetricsUps
    \/ CntOp \/ LimitCheck \/ ValidAccs \/ ValidLogSummary \/ ValidLog
    \/ Except \/ FinTick \/ Finish \/ Save \/ TrainLogDeinit
    \/ Interrupt

Spec == Init /\ [][Next]_vars

\* train() runs in one interpreter thread that carries out statement after
\* statement until the call returns or raises: it never stops half-way
FairSpec == Spec /\ WF_vars(Next)

\* ------------------------------------------------- train() is not running
TrainIdle ==
    /\ params = [steps |-> -1, acc_ival |-> 1, debug |-> FALSE, log |-> "none",
                 valid_batch_size |-> 1, limit_valid_examples |-> None,
                 phase |-> "unset"]
    /\ dataset = [train |-> 0, valid |-> 0]
    /\ pc = "idle"
    /\ i = 0
    /\ ddict = "None"
    /\ vdict = None
    /\ ex_cnt = 0
    /\ trainPos = 0
    /\ validPos = 0
    /\ optSteps = 0
    /\ accTotal = 0
    /\ log_hnd = AllNone
    /\ writers = AllNone
    /\ validLog = <<>>
    /\ finishCalls = 0
    /\ saveCalls = 0
    /\ exc = "none"
    /\ why = "none"
    /\ interrupts = 0
    /\ caught = 0
    /\ validStarts = <<>>
    /\ snap = [pos |-> 0, opt |-> 0]
    /\ holders = None
    /\ names = <<>>
    /\ reported = None

\* ---------------------------------------------------- _deserialize: buckets
\* Transverse momenta are whole numbers here; charges are in tenths, so that
\* the edge -1.5 of input_pipe_helpers.py:89 is the integer -15.
\* input_pipe_helpers.py:25  "In case of mismatch we get charge=-2 and pt = -999.0"
PtSentinel == -999
SgnSentinel == -20

PtValues == {PtSentinel} \cup (-1 .. MaxVal)
SgnValues == {-50, SgnSentinel, -10, 0, 10, 50}
EdgeValues == -1 .. MaxVal
EdgeLists == UNION {[1 .. n -> EdgeValues] : n \in 0 .. MaxEdges}

NonDecreasing(bins) == \A j \in 1 .. Len(bins) - 1 : bins[j] <= bins[j + 1]
NonIncreasing(bins) == \A j \in 1 .. Len(bins) - 1 : bins[j] >= bins[j + 1]
Reversed(bins) == [j \in 1 .. Len(bins) |-> bins[Len(bins) + 1 - j]]

\* np.searchsorted(a, x, side='right'), scanning a from position j: the number
\* of leading elements that are <= x.
RECURSIVE SearchSortedRight(_, _, _)
SearchSortedRight(a, x, j) ==
    IF j > Len(a) THEN Len(a)
    ELSE IF x < a[j] THEN j - 1
    ELSE SearchSortedRight(a, x, j + 1)

\* np.searchsorted(a, x, side='left'): the number of leading elements < x.
RECURSIVE SearchSortedLeft(_, _, _)
SearchSortedLeft(a, x, j) ==
    IF j > Len(a) THEN Len(a)
    ELSE IF x <= a[j] THEN j - 1
    ELSE SearchSortedLeft(a, x, j + 1)

\* np.digitize(x, bins, right=True): a value on an edge stays below it.
DigitizeRight(x, bins) ==
    IF NonDecreasing(bins) THEN Some(SearchSortedLeft(bins, x, 1))
    ELSE IF NonIncreasing(bins)
         THEN Some(Len(bins) - SearchSortedLeft(Reversed(bins), x, 1))
    ELSE None

\* np.digitize(x, bins) as called at input_pipe_helpers.py:77-89 (right=False):
\* bins that rise are searched as they are, bins that fall are searched
\* reversed and the index inverted, any other bins raise ValueError (None).
Digitize(x, bins) ==
    IF NonDecreasing(bins) THEN Some(SearchSortedRight(bins, x, 1))
    ELSE IF NonIncreasing(bins)
         THEN Some(Len(bins) - SearchSortedRight(Reversed(bins), x, 1))
    ELSE None

\* what digitize returned, left as it is
MinusOneDropped(d) == d

\* "- 1" applied to what digitize returned
MinusOne(d) == IF d = None THEN None ELSE Some(d[1] - 1)

\* input_pipe_helpers.py:77
prod_bucket_fn(x, bins) == Digitize(x, bins)
\* input_pipe_helpers.py:79   0 -> -, 1 -> +
prod_sgn_bucket_right(x) == DigitizeRight(x, <<0>>)
prod_sgn_bucket_fn(x) == Digitize(x, <<0>>)
\* the edges as they are, without the edge 0
omtf_bins_plain(bins) == bins
\* input_pipe_helpers.py:81-82  a copy of the edges with 0 put in front
omtf_bins(bins) == <<0>> \o bins
\* input_pipe_helpers.py:83
omtf_bucket_fn(x, bins) == MinusOne(Digitize(x, omtf_bins(bins)))
\* input_pipe_helpers.py:89   edges -1.5 and 0, in tenths
omtf_sgn_bins == <<-15, 0>>
\* the same without the shift
omtf_sgn_unshifted(x) == Digitize(x, omtf_sgn_bins)
omtf_sgn_bucket_fn(x) == MinusOne(Digitize(x, omtf_sgn_bins))

\* tf.one_hot(k, depth): all zeros when k is outside 0 .. depth-1
OneHot(k, depth) ==
    IF k = None THEN None
    ELSE Some([j \in 1 .. depth |-> IF j = k[1] + 1 THEN 1 ELSE 0])


Examples ==
    [prod_pt : PtValues, prod_sgn : SgnValues,
     omtf_pt : PtValues, omtf_sgn : SgnValues]

\* setup_input_pipe is given the caller's edge list
BucketInit ==
    /\ TrainIdle
    /\ PipeIdle
    /\ RunnerIdle
    /\ TestIdle
    /\ out_class_bins \in EdgeLists
    /\ example = None
    /\ edata = None
    /\ edges0 = out_class_bins
    /\ earlier = FALSE

\* input_pipe_helpers.py:69-74  tf.parse_single_example
ParseExample ==
    /\ pc = "idle"
    /\ example = None
    /\ \E rec \in Examples : example' = Some(rec)
    /\ edata' = None
    /\ UNCHANGED <<trainVars, inputPipeVars, runnerVars, testVars, out_class_bins,
                   edges0, earlier>>

\* the labels and the extra-data dictionary of record rec for the edges bins
Labels(rec, bins) ==
    LET prod_pt_k == prod_bucket_fn(rec.prod_pt, bins)
        prod_sign_k == prod_sgn_bucket_fn(rec.prod_sgn)
    IN  [prod_pt_k |-> prod_pt_k,
         prod_sign_k |-> prod_sign_k,
         omtf_pt_k |-> omtf_bucket_fn(rec.omtf_pt, bins),
         omtf_sign_k |-> omtf_sgn_bucket_fn(rec.omtf_sgn),
         prod_pt_label |-> OneHot(prod_pt_k, OutLen(bins)),
         prod_sign_label |-> OneHot(prod_sign_k, SignLabelWidth)]

\* _deserialize with the edge 0 inserted into the caller's list itself
DeserializeInPlace ==
    /\ example # None
    /\ edata = None
    /\ edata' = Some(Labels(example[1], out_class_bins))
    /\ out_class_bins' = <<0>> \o out_class_bins
    /\ UNCHANGED <<trainVars, inputPipeVars, runnerVars, testVars, example,
                   edges0, earlier>>

\* input_pipe_helpers.py:76-136  the labels and the extra-data dictionary
Deserialize ==
    /\ example # None
    /\ edata = None
    /\ edata' = Some(Labels(example[1], out_class_bins))
    /\ UNCHANGED <<trainVars, inputPipeVars, runnerVars, testVars, out_class_bins,
                   example, edges0>>
    /\ UNCHANGED earlier

\* the dataset map moves on to the next record
NextRecord ==
    /\ edata # None
    /\ example' = None
    /\ edata' = None
    /\ earlier' = TRUE
    /\ UNCHANGED <<trainVars, inputPipeVars, runnerVars, testVars, out_class_bins,
                   edges0>>

BucketNext == ParseExample \/ Deserialize \/ NextRecord

SpecBucket == BucketInit /\ [][BucketNext]_vars

\* ------------------------------------------------- setup_input_pipe: stream
\* PIPE_MAPPING_TYPE constants (nn4omtf.const, imported at
\* input_pipe_helpers.py:14-15)
INTERLEAVE == "interleave"
FLAT_MAP == "flat_map"
MappingTypes == {INTERLEAVE, FLAT_MAP, "other"}

Min(a, b) == IF a < b THEN a ELSE b
CeilDiv(a, b) == (a + b - 1) \div b

\* every order in which n files can be visited
FileOrders(n) ==
    {o \in [1 .. n -> 1 .. n] : \A a, b \in 1 .. n : o[a] = o[b] => a = b}

\* An example is <<file, position in the file>>.
\* an interleave that takes a whole file at a time
InterleavedByFile(o, m, p) ==
    <<o[((p - 1) \div m) + 1], ((p - 1) % m) + 1>>

\* files_dataset.interleave(cycle_length=files_n, block_length=1): one example
\* from each file of the order o in turn, the files holding m examples each;
\* this is the example at position p of one pass
Interleaved(o, m, p) ==
    <<o[((p - 1) % Len(o)) + 1], ((p - 1) \div Len(o)) + 1>>

\* a flat map that takes one example of each file in turn
FlatByTurns(o, m, p) ==
    <<o[((p - 1) % Len(o)) + 1], ((p - 1) \div Len(o)) + 1>>

\* files_dataset.flat_map: the files of the order o one after the other
Flat(o, m, p) ==
    <<o[((p - 1) \div m) + 1], ((p - 1) % m) + 1>>

\* input_pipe_helpers.py:217-231
Expanded(mapping_type, o, m, p) ==
    IF mapping_type = FLAT_MAP THEN Flat(o, m, p) ELSE Interleaved(o, m, p)

\* examples in one repetition, and in the whole stream
PerRep(cfg) == cfg.files_n * cfg.per_file
Total(cfg) == cfg.reps * PerRep(cfg)

\* the repetition that position g of the stream belongs to
RepOf(cfg, g) == ((g - 1) \div PerRep(cfg)) + 1

\* dataset.repeat(count=reps): repetition r reads the files in the order that
\* the files shuffle produced for it; this is the example at position g
Repeated(cfg, ords, g) ==
    Expanded(cfg.mapping_type, ords[RepOf(cfg, g)], cfg.per_file,
             ((g - 1) % PerRep(cfg)) + 1)

\* dataset.batch(batch_size); without a batch size elements are single examples
BatchLen(cfg) == IF cfg.batch_size = None THEN 1 ELSE cfg.batch_size[1]
\* batching that drops a short remainder
NumBatchesFloor(cfg) == Total(cfg) \div BatchLen(cfg)
NumBatches(cfg) == CeilDiv(Total(cfg), BatchLen(cfg))
BatchAt(cfg, ords, j) ==
    [q \in 1 .. Min(j * BatchLen(cfg), Total(cfg)) - (j - 1) * BatchLen(cfg) |->
        Repeated(cfg, ords, (j - 1) * BatchLen(cfg) + q)]

\* a shuffle that sits in front of the batching: the examples inside a batch
\* are out of their stream order
ShuffledInside(cfg, ords, j) ==
    IF cfg.shuffle THEN Reversed(BatchAt(cfg, ords, j)) ELSE BatchAt(cfg, ords, j)

\* input_pipe_helpers.py:239-247  the shuffle follows the batching, so its
\* elements are the batches as they were built
ShuffleElement(cfg, ords, j) == BatchAt(cfg, ords, j)

\* dataset.shuffle(buffer_size=batch_size) holds that many batches; without it
\* a batch is handed on as soon as it is built
BufferSize(cfg) ==
    IF cfg.batch_size # None /\ cfg.shuffle THEN cfg.batch_size[1] ELSE 1

\* batches delivered so far
Delivered == Len(SelectSeq(results, LAMBDA r : r # None))

\* examples pulled from the un-batched stream so far
Pulled == Min(taken * BatchLen(pipe), Total(pipe))

\* the calls considered: streams of at most MaxTotal examples
PipeConfigs ==
    {cfg \in [files_n : 1 .. MaxFiles,
              per_file : 1 .. MaxPerFile,
              mapping_type : MappingTypes,
              batch_size : {None} \cup {Some(b) : b \in 1 .. MaxBatch},
              shuffle : BOOLEAN,
              reps : 1 .. MaxReps] : Total(cfg) <= MaxTotal}

AllExamples(cfg) == (1 .. cfg.files_n) \X (1 .. cfg.per_file)

PipeInit ==
    /\ TrainIdle
    /\ BucketIdle
    /\ RunnerIdle
    /\ TestIdle
    /\ pipe \in PipeConfigs
    /\ iter = "none"
    /\ orders = <<>>
    /\ taken = 0
    /\ buffer = {}
    /\ results = <<>>
    /\ seen = [e \in AllExamples(pipe) |-> 0]
    /\ last = None
    /\ inOrder = TRUE

\* the call with an unknown mapping_type falls back to interleaving
SetupInputPipeDefaults ==
    /\ iter = "none"
    /\ iter' = "iterator"
    /\ UNCHANGED <<trainVars, bucketVars, runnerVars, testVars, pipe, orders,
                   taken, buffer, results, seen, last, inOrder>>

\* input_pipe_helpers.py:174-254  setup_input_pipe
SetupInputPipe ==
    /\ iter = "none"
    /\ IF pipe.mapping_type \in {INTERLEAVE, FLAT_MAP}
       THEN iter' = "iterator"
       ELSE iter' = "ValueError"
    /\ UNCHANGED <<trainVars, bucketVars, runnerVars, testVars, pipe, orders,
                   taken, buffer, results, seen, last, inOrder>>

\* the delivery counts cnt after the examples of batch from position q on
\* have been delivered once more
RECURSIVE Counted(_, _, _)
Counted(cnt, batch, q) ==
    IF q > Len(batch) THEN cnt
    ELSE Counted([cnt EXCEPT ![batch[q]] = @ + 1], batch, q + 1)

\* what fetch() gives back for a batch, and when the iterator has run out
FetchResult(batch) == IF batch = None THEN None ELSE Some(Len(batch[1]))

\* one fetch(): the shuffle buffer is filled from the batch stage, then one of
\* the held batches is delivered; with nothing held the stream has run out.
\* Every repetition that the batch stage enters gets its file order from the
\* files shuffle of input_pipe_helpers.py:203 as it begins: any order, the
\* order of the repetition before it included.
PipeFetch ==
    /\ iter = "iterator"
    /\ LET filled == Min(NumBatches(pipe),
                         taken + (BufferSize(pipe) - Cardinality(buffer)))
           held == buffer \cup (taken + 1 .. filled)
           begun == IF filled = 0 THEN 0
                    ELSE RepOf(pipe, Min(filled * BatchLen(pipe), Total(pipe)))
       IN  /\ taken' = filled
           /\ \E drawn \in [1 .. begun - Len(orders) -> FileOrders(pipe.files_n)] :
                  orders' = orders \o drawn
           /\ IF held = {}
              THEN /\ Len(SelectSeq(results, LAMBDA r : r = None)) < MaxSentinels
                   /\ buffer' = held
                   /\ results' = Append(results, FetchResult(None))
                   /\ seen' = seen
                   /\ last' = last
                   /\ inOrder' = inOrder
              ELSE \E j \in held :
                      LET batch == ShuffleElement(pipe, orders', j)
                      IN  /\ buffer' = held \ {j}
                          /\ results' = Append(results, FetchResult(Some(batch)))
                          /\ seen' = Counted(seen, batch, 1)
                          /\ last' = Some(batch)
                          /\ inOrder' = (inOrder /\ j = Delivered + 1)
    /\ UNCHANGED <<trainVars, bucketVars, runnerVars, testVars, pipe, iter>>

PipeNext == SetupInputPipe \/ PipeFetch

SpecPipe == PipeInit /\ [][PipeNext]_vars

\* ------------------------------------------------- OMTFRunner: parameters
\* Parameter values are written as their Python literals.
\* runner.py:36-53
DEFAULT_PARAMS ==
    [valid_batch_size |-> "1000", batch_size |-> "1000", sess_prefix |-> "''",
     shuffle |-> "False", acc_ival |-> "1000", epochs |-> "1", steps |-> "-1",
     logdir |-> "'.'", verbose |-> "False", learning_rate |-> "0.001",
     shiftval |-> "600", nullval |-> "0", limit_valid_examples |-> "None",
     limit_test_examples |-> "None", debug |-> "False", log |-> "'none'"]

\* the keys a caller overrides here, and the value it gives to each
OverrideKeys ==
    {"batch_size", "valid_batch_size", "shuffle", "acc_ival", "epochs",
     "steps", "learning_rate", "nullval", "shiftval"}
Override ==
    [batch_size |-> "5", valid_batch_size |-> "7", shuffle |-> "True",
     acc_ival |-> "10", epochs |-> "3", steps |-> "100",
     learning_rate |-> "0.5", nullval |-> "-1", shiftval |-> "0"]

\* the **kw of one call: at most MaxOverrides of the keys
KwSet ==
    {[k \in K |-> Override[k]] :
        K \in {S \in SUBSET OverrideKeys : Cardinality(S) <= MaxOverrides}}

\* the dict obj after "for key, val in kw.items(): if key in params:
\* params[key] = val" (runner.py:68-70)
SetKnown(obj, kw) ==
    [k \in DOMAIN obj |-> IF k \in DOMAIN kw THEN kw[k] ELSE obj[k]]

\* the dict obj after "for k, v in params_dict.items(): self.params[k] = v"
\* (runner.py:161-162)
SetAll(obj, kw) ==
    [k \in DOMAIN obj \cup DOMAIN kw |-> IF k \in DOMAIN kw THEN kw[k] ELSE obj[k]]

\* the networks a runner is built around: name and number of pt classes
Networks ==
    {[name |-> "netA", out_len |-> "3"], [name |-> "netB", out_len |-> "5"]}

\* runner.py:72-81  the runner variables derived from the network (the
\* timestamp is left out of the session name)
RunnerVars(network) ==
    [sess_name |-> network.name, out_len |-> network.out_len]

\* the process starts with the class attribute as the only dict
RunnerInit ==
    /\ TrainIdle
    /\ BucketIdle
    /\ PipeIdle
    /\ TestIdle
    /\ heap = <<DEFAULT_PARAMS>>
    /\ runners = <<>>
    /\ updates = 0

\* a constructor that gives every runner a dict of its own
ConstructCopying(network, kw) ==
    /\ Len(runners) < MaxRunners
    /\ heap' = Append(heap, SetAll(SetKnown(heap[1], kw), RunnerVars(network)))
    /\ runners' = Append(runners, [params |-> Len(heap) + 1, given |-> DOMAIN kw,
                                  network |-> network.name])
    /\ UNCHANGED <<trainVars, bucketVars, inputPipeVars, testVars, updates>>

\* runner.py:55-84  OMTFRunner(dataset, network, **kw): params is the class
\* attribute itself (line 67), the overrides (68-70) and the runner variables
\* (82-83) are written into it, and self.params refers to it (84)
Construct(network, kw) ==
    /\ Len(runners) < MaxRunners
    /\ heap' = [heap EXCEPT ![1] = SetAll(SetKnown(@, kw), RunnerVars(network))]
    /\ runners' = Append(runners, [params |-> 1, given |-> DOMAIN kw,
                                  network |-> network.name])
    /\ UNCHANGED <<trainVars, bucketVars, inputPipeVars, testVars, updates>>

\* runner.py:155-162  self._update_params(params_dict) of runner r
UpdateParams(r, params_dict) ==
    /\ updates < MaxUpdates
    /\ updates' = updates + 1
    /\ heap' = [heap EXCEPT ![runners[r].params] = SetAll(@, params_dict)]
    /\ runners' = [runners EXCEPT
                      ![r].given = @ \cup (DOMAIN params_dict \cap OverrideKeys)]
    /\ UNCHANGED <<trainVars, bucketVars, inputPipeVars, testVars>>

\* runner.py:219  kw['phase'] = PHASE_NAME.TRAIN
WithPhase(kw) ==
    [k \in DOMAIN kw \cup {"phase"} |-> IF k = "phase" THEN TRAIN ELSE kw[k]]

RunnerNext ==
    \/ \E network \in Networks, kw \in KwSet : Construct(network, kw)
    \/ \E r \in 1 .. Len(runners), kw \in KwSet : UpdateParams(r, WithPhase(kw))
    \/ \E r \in 1 .. Len(runners), kw \in KwSet : UpdateParams(r, kw)

SpecRunner == RunnerInit /\ [][RunnerNext]_vars

\* --------------------------------------------------------------- test()
\* the runner parameters that test() reads
TestParamsSet ==
    [valid_batch_size : 1 .. MaxValidBatch,
     limit_test_examples : {None} \cup {Some(n) : n \in 1 .. MaxLimit}]

\* the **kw of test(): nothing, or a limit on the test examples
TestKwSet ==
    {<<>>} \cup {[limit_test_examples |-> Some(n)] : n \in 1 .. MaxLimit}

\* State after OMTFRunner(dataset, network, **kw), before test() is called.
TestInit ==
    /\ TrainIdle
    /\ BucketIdle
    /\ PipeIdle
    /\ RunnerIdle
    /\ test_pc = "call"
    /\ test_opt \in TestParamsSet
    /\ test_stream \in 0 .. MaxValidExamples
    /\ test_pos = 0
    /\ test_inits = 0
    /\ test_vdict = None
    /\ test_holders = None
    /\ processed = 0

othersIdle == <<trainVars, bucketVars, inputPipeVars, runnerVars>>

\* runner.py:397-399  self._update_params(kw); opt = dict_to_object(self.params)
TestCall(kw) ==
    /\ test_pc = "call"
    /\ test_opt' = [k \in DOMAIN test_opt |->
                       IF k \in DOMAIN kw THEN kw[k] ELSE test_opt[k]]
    /\ test_pc' = "pipe"
    /\ UNCHANGED <<test_stream, test_pos, test_inits, test_vdict, test_holders,
                   processed>>
    /\ UNCHANGED othersIdle

\* runner.py:405-410  test_pipe = OMTFInputPipe(dataset, name, hits_type,
\* out_class_bins, batch_size=opt.valid_batch_size): no limit_examples
TestPipeNoLimit == None

\* runner.py:400-411  the graph is reset and the test pipe is built
TestPipe ==
    /\ test_pc = "pipe"
    /\ test_pc' = "holders"
    /\ UNCHANGED <<test_opt, test_stream, test_pos, test_inits, test_vdict,
                   test_holders, processed>>
    /\ UNCHANGED othersIdle

\* runner.py:413-431  the model is restored, the label placeholders and the
\* accuracy ops are built
TestHolders ==
    /\ test_pc = "holders"
    /\ test_holders' = Some([pt_labels |-> OutLen(pt_class), sgn_labels |-> 2])
    /\ test_pc' = "collect_init"
    /\ UNCHANGED <<test_opt, test_stream, test_pos, test_inits, test_vdict,
                   processed>>
    /\ UNCHANGED othersIdle

\* collect_statistics: the pipe is initialized once for its single pass
CollectInit ==
    /\ test_pc = "collect_init"
    /\ test_pos' = 0
    /\ test_inits' = test_inits + 1
    /\ test_pc' = "collect_fetch"
    /\ UNCHANGED <<test_opt, test_stream, test_vdict, test_holders, processed>>
    /\ UNCHANGED othersIdle

\* collect_statistics: the next batch is fetched; the sentinel ends the pass
CollectFetch ==
    /\ test_pc = "collect_fetch"
    /\ LET r == ValidPipeFetch(test_pos, test_stream, test_opt.valid_batch_size,
                               TestPipeNoLimit)
       IN  /\ test_vdict' = r.vdict
           /\ test_pos' = r.pos
           /\ test_pc' = IF r.vdict = None THEN "report" ELSE "collect_run"
    /\ UNCHANGED <<test_opt, test_stream, test_inits, test_holders, processed>>
    /\ UNCHANGED othersIdle

\* collect_statistics: the batch is run through the network
CollectRun ==
    /\ test_pc = "collect_run"
    /\ processed' = processed + test_vdict[1]
    /\ test_pc' = "collect_fetch"
    /\ UNCHANGED <<test_opt, test_stream, test_pos, test_inits, test_vdict,
                   test_holders>>
    /\ UNCHANGED othersIdle

\* runner.py:448-468  the statistics are stored and the summary is returned
TestReport ==
    /\ test_pc = "report"
    /\ test_pc' = "returned"
    /\ UNCHANGED <<test_opt, test_stream, test_pos, test_inits, test_vdict,
                   test_holders, processed>>
    /\ UNCHANGED othersIdle

TestNext ==
    \/ \E kw \in TestKwSet : TestCall(kw)
    \/ TestPipe
    \/ TestHolders
    \/ CollectInit
    \/ CollectFetch
    \/ CollectRun
    \/ TestReport

SpecTest == TestInit /\ [][TestNext]_vars

\* ======================================================================
\* Properties
\* ======================================================================
Last(seq) == seq[Len(seq)]
Unfinished == Len(validStarts) - Len(validLog)
HandlesClosed == \A p \in Phases : log_hnd[p] # "open"

\* C1: whenever train() returns, on any way out of the loop (budget,
\* exhausted stream, interrupt caught by the except clause), network.finish()
\* and network.save() have both been called.
C1_PersistedBeforeReturn ==
    pc = "returned" => (finishCalls >= 1 /\ saveCalls >= 1)

C1_Witness ==
    pc = "returned" /\ why = "interrupt" /\ optSteps >= 1 /\ saveCalls = 1

\* C2 as claimed: when the except clause takes over, no training step and no
\* validation sub-phase is left half done.
C2_InterruptOnlyBetweenSteps ==
    pc = "except" => (trainPos = optSteps /\ Unfinished = 0)

\* C2 as amended: the interrupt is taken at a statement boundary, possibly in
\* the middle of a step or of a validation sub-phase; at most the one step in
\* progress (a fetched batch without its optimizer step) and the one
\* sub-phase in progress are left unfinished, all earlier ones are complete,
\* and at the head of the loop nothing is in progress.
C2_AtMostCurrentStepCut ==
    /\ trainPos - optSteps \in {0, 1}
    /\ Unfinished \in {0, 1}
    /\ pc \in {"loop", "fetch"} => (trainPos = optSteps /\ Unfinished = 0)
    /\ pc \in {"check_none", "train_run"} => Unfinished = 0

C2_Witness ==
    /\ pc = "returned" /\ why = "interrupt"
    /\ trainPos = optSteps + 1 /\ optSteps >= 1

\* C3 as claimed: once an interrupt was received and train() is over, the
\* model is persisted, the log handles are closed and the interrupt has been
\* propagated to the caller.
C3_InterruptFinalizedThenPropagated ==
    (interrupts > 0 /\ pc \in DonePcs) =>
        /\ finishCalls >= 1 /\ saveCalls >= 1
        /\ HandlesClosed
        /\ exc = "KeyboardInterrupt"

\* C3 as amended: an interrupt received inside the training loop ends the loop
\* and is swallowed; if train() then returns, the model was persisted once, the
\* text log handles are closed and nothing is propagated.  An interrupt
\* propagates exactly when it was received outside the loop (setup or
\* finalization), and then train() does not return.
C3_InterruptInLoopSwallowed ==
    /\ caught > 0 => pc \notin TryPcs
    /\ (caught > 0 /\ pc = "returned") =>
           /\ finishCalls = 1 /\ saveCalls = 1
           /\ HandlesClosed
           /\ exc = "none"
    /\ exc = "KeyboardInterrupt" <=> caught < interrupts
    /\ exc = "KeyboardInterrupt" => pc = "raised"

C3_Witness ==
    /\ pc = "returned" /\ caught = 1 /\ params.log = "txt"
    /\ log_hnd[VALID] = "closed" /\ Len(validLog) >= 1

\* C4: a run that ends by the budget or by the exhausted stream calls
\* network.finish() and network.save() exactly once each, and neither is
\* called while train() is still setting up or inside the loop.
C4_FinishSaveOnceAfterLoop ==
    /\ (pc = "returned" /\ why \in {"budget", "exhausted"}) =>
           (finishCalls = 1 /\ saveCalls = 1)
    /\ pc \in SetupPcs \cup TryPcs => (finishCalls = 0 /\ saveCalls = 0)
    /\ saveCalls <= finishCalls

C4_Witness ==
    /\ pc = "returned" /\ why = "budget" /\ optSteps = 2
    /\ Len(validLog) >= 1 /\ finishCalls = 1 /\ saveCalls = 1

\* C5 as claimed: with steps >= 0 at most steps batches are pulled and at most
\* steps optimizer steps run; with steps < 0 the loop is left only by the
\* exhausted stream or by an interrupt.
C5_BudgetOrExhaustedOrInterrupt ==
    /\ params.steps >= 0 =>
           (trainPos <= params.steps /\ optSteps <= params.steps)
    /\ (params.steps < 0 /\ why # "none") => why \in {"exhausted", "interrupt"}

\* C5 as amended: the same, with the one further way out of the loop: with
\* debug set, show_dbg returning True (the user leaves the step debugger).
C5_StepBudget ==
    /\ params.steps >= 0 =>
           (trainPos <= params.steps /\ optSteps <= params.steps)
    /\ (params.steps < 0 /\ why # "none") =>
           why \in {"exhausted", "interrupt", "debug"}
    /\ why = "debug" => params.debug
    /\ why = "budget" => (params.steps >= 0 /\ optSteps = params.steps)

C5_Witness ==
    /\ pc = "returned" /\ why = "budget"
    /\ params.steps = 1 /\ dataset.train = 2 /\ trainPos = 1 /\ optSteps = 1

\* C6: when the training fetch returns the exhaustion sentinel, also on the
\* very first fetch, that iteration runs no optimizer step and no validation,
\* the loop is left without an exception, and the run goes through the normal
\* finalization (finish and save once, handles closed) when it returns.
C6_ExhaustionEndsLoopQuietly ==
    why = "exhausted" =>
        /\ pc \notin TryPcs
        /\ ddict = "None"
        /\ trainPos = dataset.train
        /\ optSteps = trainPos /\ optSteps = i - 1
        /\ \A k \in 1 .. Len(validStarts) : validStarts[k] < i
        /\ Unfinished = 0
        /\ exc # "none" => (exc = "KeyboardInterrupt" /\ interrupts > 0)
        /\ pc = "returned" =>
               (finishCalls = 1 /\ saveCalls = 1 /\ HandlesClosed /\ exc = "none")

C6_Witness ==
    /\ pc = "returned" /\ why = "exhausted"
    /\ dataset.train = 0 /\ params.steps # 0 /\ optSteps = 0
    /\ interrupts = 0

\* C7: the k-th validation sub-phase starts at step k * acc_ival and at no
\* other step; inside a sub-phase the accumulators hold exactly the examples
\* the validation stream delivered since it was re-initialized (so both were
\* reset at its start); and each result is logged under the step number of
\* its sub-phase, which is the number of training batches consumed so far.
C7_ValidationEveryAccIval ==
    /\ \A k \in 1 .. Len(validStarts) : validStarts[k] = k * params.acc_ival
    /\ pc \in {"tick", "incr"} =>
           /\ Len(validLog) = i \div params.acc_ival
           /\ Unfinished = 0
    /\ pc \in {"valid_fetch", "cnt_op", "limit_check", "valid_accs",
               "log_summary", "log"} => accTotal = validPos
    /\ pc = "limit_check" => ex_cnt = accTotal
    /\ pc = "metrics_ups" => accTotal + vdict[1] = validPos
    /\ \A k \in 1 .. Len(validLog) :
           /\ validLog[k].step = validStarts[k]
           /\ validLog[k].step = validLog[k].fetched
           /\ validLog[k].step > 0

C7_Witness ==
    /\ Len(validLog) = 2 /\ validLog[1].cnt >= 2 /\ validLog[2].cnt >= 2
    /\ params.acc_ival = 1 /\ pc = "tick"

\* C8: with limit_valid_examples set, the examples accumulated in one
\* validation sub-phase never exceed it.
C8_ValidationWithinLimit ==
    params.limit_valid_examples # None =>
        accTotal <= params.limit_valid_examples[1]

\* C9: from the start of a validation sub-phase to its end the training
\* stream position and the number of executed optimizer steps stay what they
\* were when the sub-phase began.
C9_ValidationFreezesTraining ==
    /\ pc \in ValidPcs \ {"metrics_init"} =>
           (trainPos = snap.pos /\ optSteps = snap.opt)
    /\ (pc = "tick" /\ Len(validLog) > 0 /\ Last(validLog).step = i) =>
           (trainPos = snap.pos /\ optSteps = snap.opt)

C9_Witness ==
    /\ pc = "tick" /\ Len(validLog) = 2 /\ Last(validLog).step = i
    /\ Last(validLog).cnt = 3 /\ params.valid_batch_size = 2
    /\ optSteps = 2 /\ dataset.train = 2

\* C10: whatever the logging mode, no logging operation (session log setup,
\* log, log_summary) makes train() fail: the only exception that can leave
\* train() is the user's interrupt.
C10_LoggingNeverFails ==
    exc \in {"none", "KeyboardInterrupt"}

Ordered(E) == NonDecreasing(E)
\* a record has been decoded
Decoded == example # None /\ edata # None
\* bucket b of edges E holds v: E[b-1] <= v < E[b], counting edges from 0 and
\* taking the edge before the first as -inf and the edge after the last as +inf
InBucket(v, E, b) ==
    /\ b \in 0 .. Len(E)
    /\ b = 0 \/ E[b] <= v
    /\ b = Len(E) \/ v < E[b + 1]

\* C12: for every value v and every ordered edge list E of length k the
\* production pt bucket is the index b in 0..k with E[b-1] <= v < E[b]; a value
\* equal to an edge is in the bucket above that edge.
C12_ProdBucketIsDigitize ==
    (Decoded /\ Ordered(out_class_bins)) =>
        /\ edata[1].prod_pt_k # None
        /\ InBucket(example[1].prod_pt, out_class_bins, edata[1].prod_pt_k[1])

\* a value that sits on the first of two distinct edges was put in bucket 1
C12_Witness ==
    /\ Decoded
    /\ Len(out_class_bins) = 2
    /\ out_class_bins[1] < out_class_bins[2]
    /\ example[1].prod_pt = out_class_bins[1]
    /\ edata[1].prod_pt_k = Some(1)

\* every edge is a possible transverse momentum: none is negative
NonNegative(E) == \A j \in 1 .. Len(E) : E[j] >= 0

\* C13 as stated: for every non-sentinel value v and every ordered edge list
\* the reference pt bucket (edge 0 in front, digitize, minus 1) of v is the
\* production pt bucket of the same v.
C13_ReferenceAgreesOffSentinel ==
    (/\ Decoded
     /\ Ordered(out_class_bins)
     /\ example[1].omtf_pt = example[1].prod_pt
     /\ example[1].omtf_pt # PtSentinel) =>
        edata[1].omtf_pt_k = edata[1].prod_pt_k

\* C13, amended: for every value v >= 0 and every ordered list of non-negative
\* edges the reference pt bucket of v is the production pt bucket of v.
C13_ReferenceAgreesOnMomenta ==
    (/\ Decoded
     /\ Ordered(out_class_bins)
     /\ NonNegative(out_class_bins)
     /\ example[1].omtf_pt = example[1].prod_pt
     /\ example[1].omtf_pt >= 0) =>
        /\ edata[1].omtf_pt_k # None
        /\ edata[1].omtf_pt_k = edata[1].prod_pt_k

\* the same momentum between two positive edges, bucket 1 on both sides
C13_Witness ==
    /\ Decoded
    /\ Len(out_class_bins) = 2
    /\ 0 < out_class_bins[1]
    /\ out_class_bins[1] < out_class_bins[2]
    /\ example[1].omtf_pt = example[1].prod_pt
    /\ example[1].omtf_pt >= out_class_bins[1]
    /\ example[1].omtf_pt < out_class_bins[2]
    /\ edata[1].omtf_pt_k = Some(1)
    /\ edata[1].prod_pt_k = Some(1)

\* C14 as stated: the reference sign bucket of the failure sentinel -2.0 is 0,
\* of the negative value -5.0 is 1, of the positive value 5.0 is 2.
C14_SignBucketsZeroOneTwo ==
    Decoded =>
        /\ example[1].omtf_sgn = SgnSentinel => edata[1].omtf_sign_k = Some(0)
        /\ example[1].omtf_sgn = -50 => edata[1].omtf_sign_k = Some(1)
        /\ example[1].omtf_sgn = 50 => edata[1].omtf_sign_k = Some(2)

\* C14, amended: the reference sign bucket is -1 for every charge below -1.5
\* (the failure sentinel -2.0, and -5.0 as well), 0 for a charge from -1.5 up
\* to but excluding 0, and 1 for a charge of 0 or more (5.0).
C14_SignBucketsShifted ==
    Decoded =>
        LET c == example[1].omtf_sgn
        IN  /\ c < -15 => edata[1].omtf_sign_k = Some(-1)
            /\ (-15 <= c /\ c < 0) => edata[1].omtf_sign_k = Some(0)
            /\ c >= 0 => edata[1].omtf_sign_k = Some(1)

\* the failure sentinel was decoded to bucket -1
C14_Witness ==
    /\ Decoded
    /\ example[1].omtf_sgn = SgnSentinel
    /\ edata[1].omtf_sign_k = Some(-1)

\* C15 as stated: for every input value, sentinel and out-of-range values
\* included, the production and the reference pt bucket both lie in 0..k.
C15_BothBucketsInClassSpace ==
    (Decoded /\ Ordered(out_class_bins) /\ NonNegative(out_class_bins)) =>
        LET k == Len(out_class_bins)
        IN  /\ edata[1].prod_pt_k \in {Some(b) : b \in 0 .. k}
            /\ edata[1].omtf_pt_k \in {Some(b) : b \in 0 .. k}

\* C15, amended: for ordered non-negative edges the production pt bucket lies
\* in 0..k for every value (0 below the first edge, k from the last edge on);
\* the reference pt bucket lies in -1..k and is -1 exactly for the negative
\* values, the -999 sentinel among them.
C15_ReferenceHasMismatchBucket ==
    (Decoded /\ Ordered(out_class_bins) /\ NonNegative(out_class_bins)) =>
        LET k == Len(out_class_bins)
            E == out_class_bins
            p == example[1].prod_pt
            o == example[1].omtf_pt
        IN  /\ edata[1].prod_pt_k \in {Some(b) : b \in 0 .. k}
            /\ (k > 0 /\ p < E[1]) => edata[1].prod_pt_k = Some(0)
            /\ (k > 0 /\ p >= E[k]) => edata[1].prod_pt_k = Some(k)
            /\ edata[1].omtf_pt_k \in {Some(b) : b \in -1 .. k}
            /\ (edata[1].omtf_pt_k = Some(-1)) <=> (o < 0)
            /\ (k > 0 /\ o >= E[k]) => edata[1].omtf_pt_k = Some(k)

\* the reference sentinel went to bucket -1 while a production value beyond
\* the last edge went to bucket k
C15_Witness ==
    /\ Decoded
    /\ Len(out_class_bins) = 2
    /\ Ordered(out_class_bins)
    /\ NonNegative(out_class_bins)
    /\ example[1].omtf_pt = PtSentinel
    /\ edata[1].omtf_pt_k = Some(-1)
    /\ example[1].prod_pt > out_class_bins[2]
    /\ edata[1].prod_pt_k = Some(2)

\* ------------------------------------------------------------- input stream
\* file and within-file position of the example at position g of the stream
FileAt(g) == Repeated(pipe, orders, g)[1]
IdxAt(g) == Repeated(pipe, orders, g)[2]
\* the pulls g .. g+n-1 come from n different files
DistinctFiles(g, n) ==
    Cardinality({FileAt(a) : a \in g .. g + n - 1}) = n
\* the whole stream has been pulled and a later repetition read the files in
\* another order than the first
Reshuffled ==
    /\ iter = "iterator"
    /\ pipe.files_n = 2
    /\ pipe.per_file = 2
    /\ pipe.reps = 2
    /\ Pulled = Total(pipe)
    /\ Len(orders) = 2
    /\ orders[1] # orders[2]

\* C16 as stated: with INTERLEAVE over N files of M examples, every window of
\* N consecutive un-batched pulls holds at most one example of each file,
\* windows across a boundary between two repetitions included.
C16_WindowAcrossRepetitions ==
    (iter = "iterator" /\ pipe.mapping_type = INTERLEAVE) =>
        \A g \in 1 .. Pulled - pipe.files_n + 1 :
            DistinctFiles(g, pipe.files_n)

\* C16, amended: every window of N consecutive un-batched pulls that lies
\* within one repetition holds one example of each file.
C16_WindowWithinRepetition ==
    (iter = "iterator" /\ pipe.mapping_type = INTERLEAVE) =>
        \A g \in 1 .. Pulled - pipe.files_n + 1 :
            RepOf(pipe, g) = RepOf(pipe, g + pipe.files_n - 1) =>
                DistinctFiles(g, pipe.files_n)

\* two files of two examples interleaved twice, in two different orders
C16_Witness == Reshuffled /\ pipe.mapping_type = INTERLEAVE

\* position of file f in the file order o
PosIn(o, f) == CHOOSE k \in 1 .. Len(o) : o[k] = f
\* pulls g and g+1 of one pass over the files in order o: the next example of
\* the same file, or the first example of the file that follows in o once the
\* file is finished
FlatStep(o, g) ==
    \/ /\ FileAt(g + 1) = FileAt(g)
       /\ IdxAt(g + 1) = IdxAt(g) + 1
    \/ /\ IdxAt(g) = pipe.per_file
       /\ IdxAt(g + 1) = 1
       /\ PosIn(o, FileAt(g + 1)) = PosIn(o, FileAt(g)) + 1
\* pull g opens a pass over the files in order o
FlatStart(o, g) == FileAt(g) = o[1] /\ IdxAt(g) = 1
\* pull g is the first of its repetition
OpensRep(g) == (g - 1) % PerRep(pipe) = 0

\* C17 as stated: with FLAT and batch shuffling off the examples of a file are
\* contiguous and in their within-file order, and the files follow each other
\* in the one file order that was shuffled once.
C17_FlatInOnceShuffledOrder ==
    (iter = "iterator" /\ pipe.mapping_type = FLAT_MAP /\ ~pipe.shuffle) =>
        /\ inOrder
        /\ \A g \in 1 .. Pulled : OpensRep(g) => FlatStart(orders[1], g)
        /\ \A g \in 1 .. Pulled - 1 : ~OpensRep(g + 1) => FlatStep(orders[1], g)

\* C17, amended: the same within each repetition, in the file order drawn for
\* that repetition.
C17_FlatInOrderOfRepetition ==
    (iter = "iterator" /\ pipe.mapping_type = FLAT_MAP /\ ~pipe.shuffle) =>
        /\ inOrder
        /\ \A g \in 1 .. Pulled :
              OpensRep(g) => FlatStart(orders[RepOf(pipe, g)], g)
        /\ \A g \in 1 .. Pulled - 1 :
              ~OpensRep(g + 1) => FlatStep(orders[RepOf(pipe, g)], g)

\* two files of two examples concatenated twice, in two different orders, and
\* delivered in batches without batch shuffling
C17_Witness ==
    /\ Reshuffled
    /\ pipe.mapping_type = FLAT_MAP
    /\ ~pipe.shuffle
    /\ pipe.batch_size # None
    /\ Delivered = NumBatches(pipe)

\* C18: a mapping_type that is neither INTERLEAVE nor FLAT makes the
\* construction raise: no iterator, no file order, no batch built or fetched.
C18_UnknownMappingRaises ==
    (iter # "none" /\ pipe.mapping_type \notin {INTERLEAVE, FLAT_MAP}) =>
        /\ iter = "ValueError"
        /\ orders = <<>>
        /\ taken = 0
        /\ results = <<>>
        /\ \A e \in DOMAIN seen : seen[e] = 0

\* the construction was attempted with an unknown mapping_type and raised
C18_Witness ==
    /\ iter = "ValueError"
    /\ pipe.mapping_type \notin {INTERLEAVE, FLAT_MAP}

\* the sentinel has been fetched
Exhausted == \E k \in 1 .. Len(results) : results[k] = None
\* ceil(reps*T/B) batches with every example reps times, nothing but
\* sentinels after the first sentinel
FetchTotals ==
    /\ Delivered <= NumBatches(pipe)
    /\ \A k \in 1 .. Len(results) : results[k] # None => results[k][1] \in 1 .. BatchLen(pipe)
    /\ \A k \in 1 .. Len(results) - 1 : results[k] = None => results[k + 1] = None
    /\ Exhausted =>
          /\ Delivered = CeilDiv(pipe.reps * PerRep(pipe), BatchLen(pipe))
          /\ \A e \in DOMAIN seen : seen[e] = pipe.reps
\* fetches that returned a batch smaller than B
ShortFetches ==
    {k \in 1 .. Len(results) : results[k] # None /\ results[k][1] < BatchLen(pipe)}

ParamsOf(r) == heap[runners[r].params]

\* C20: in any sequence of constructions, a runner that was given no override
\* for a key has that key's documented default, whatever earlier runners were
\* constructed or trained with.
C20_DefaultsUnlessOverridden ==
    \A r \in 1 .. Len(runners) :
        \A k \in OverrideKeys \ runners[r].given :
            ParamsOf(r)[k] = DEFAULT_PARAMS[k]

\* --------------------------------------------------------- train(): report
\* C25: the step total that train() prints at its end equals the number of
\* training steps that were carried out, on every way out of the loop.
C25_ReportedIsCompleted ==
    reported # None => reported[1] = optSteps

\* the fields of a validation record: each metric name once, then the two
\* cross entropies
RecordFields == MetricNames \o <<"cross-pt", "cross-sgn">>

\* C26: every validation record logged in one train() run has the same fields
\* in the same order, each metric name once and then cross-pt and cross-sgn,
\* however many validations came before it and although the name list grows.
C26_SameFieldsInEveryRecord ==
    \A k \in 1 .. Len(validLog) : validLog[k].fields = RecordFields

\* a second record was logged from a name list that had been extended twice
C26_Witness ==
    /\ Len(validLog) = 2
    /\ Len(names) = Len(MetricNames) + 4
    /\ validLog[2].fields = validLog[1].fields

\* ------------------------------------------------------------ label widths
\* the placeholders h take the labels that the deserializer produces
WidthsMatch(h) ==
    /\ h.sgn_labels = SignLabelWidth
    /\ h.pt_labels = OutLen(pt_class)

\* C23: the sign-label width that the runner's graph expects is the width the
\* deserializer produces (2), in the TRAIN and in the TEST phase, and the
\* pt-label width is len(edges) + 1 in both.
C23_LabelWidthsAgree ==
    /\ holders # None => WidthsMatch(holders[1])
    /\ test_holders # None => WidthsMatch(test_holders[1])

C21_EdgesUntouched ==
    /\ out_class_bins = edges0
    /\ (Decoded /\ Ordered(edges0)) =>
           /\ edata[1].prod_pt_k # None
           /\ InBucket(example[1].prod_pt, edges0, edata[1].prod_pt_k[1])

\* a record decoded after an earlier one, with two distinct edges
C21_Witness ==
    /\ Decoded
    /\ earlier
    /\ Len(edges0) = 2
    /\ edges0[1] < edges0[2]
    /\ edata[1].prod_pt_k = Some(1)

\* C22: the production sign bucket is 1 for every v >= 0, v = 0 included, and
\* 0 for every v < 0; the sign label is its one-hot encoding of length 2.
C22_ProdSignBucket ==
    Decoded =>
        LET v == example[1].prod_sgn
            b == IF v >= 0 THEN 1 ELSE 0
        IN  /\ edata[1].prod_sign_k = Some(b)
            /\ edata[1].prod_sign_label = Some(IF b = 1 THEN <<0, 1>> ELSE <<1, 0>>)

\* a record with sign value 0 was decoded into bucket 1
C22_Witness ==
    /\ Decoded
    /\ example[1].prod_sgn = 0
    /\ edata[1].prod_sign_label = Some(<<0, 1>>)

\* ------------------------------------------------------------ session names
\* C27: the session name of a runner is fixed at its construction: it stays
\* the name made from the runner's own network, whatever runners are
\* constructed afterwards and whatever overrides train() and test() are given.
C27_SessNameFixed ==
    \A r \in 1 .. Len(runners) : ParamsOf(r).sess_name = runners[r].network

\* --------------------------------------------------------- batch then shuffle
\* the examples at positions (j-1)*B+1 .. j*B of the stream that the file
\* orders ords give without any shuffling of batches
StreamSlice(cfg, ords, j) ==
    LET B == BatchLen(cfg)
        hi == IF j * B < Total(cfg) THEN j * B ELSE Total(cfg)
    IN  [q \in 1 .. hi - (j - 1) * B |-> Repeated(cfg, ords, (j - 1) * B + q)]

C29_Terminates == <>(pc \in DonePcs)

\* every validation sub-phase that starts comes to its end
C29_ValidationEnds == (pc \in ValidPcs) ~> (pc \notin ValidPcs)

\* C29: with finite streams and acc_ival >= 1, for every value of steps
\* (steps < 0 included) train() eventually reaches its finalization and
\* returns, unless a KeyboardInterrupt outside the try block ends the call.
C29_ReachesFinalization ==
    <>((pc = "returned" /\ finishCalls = 1) \/ exc = "KeyboardInterrupt")

====
